---------------------------- MODULE Spec2Model ----------------------------
(***************************************************************************)
(* Model of display_curses.py: the serial reader / curses display of a     *)
(* dial indicator.  One process (main -> IndicatorReader.select_loop)      *)
(* owns a serial handle and an IndicatorDisplay; the environment delivers  *)
(* serial bytes, key presses and terminal resizes.                         *)
(*                                                                         *)
(* Text is a sequence of one-character strings.  Serial bytes are          *)
(* one-character strings for ASCII bytes plus the two bytes LEAD, CONT of  *)
(* the UTF-8 encoding of the micro sign.                                   *)
(***************************************************************************)
EXTENDS Integers, Sequences, FiniteSets, TLC

\* ------------------------------------------------------------------ bounds
MaxLines == 1       \* lines the instrument sends in one run
MaxPending == 1     \* key/resize events waiting to be polled
MaxLineLen == 6     \* ParseSpec: characters of a line before its terminator
MaxRows == 13       \* RenderSpec: rows of the tallest terminal
MaxCols == 80       \* RenderSpec: columns of the widest terminal

\* ------------------------------------------------------- program constants
COLOR_PAIR_GRN_ON_GRN == 1
COLOR_PAIR_RED_ON_RED == 2
COLOR_PAIR_GRN_ON_BLK == 3
COLOR_PAIR_RED_ON_BLK == 4

ESC == 27
EOT == 4

\* The fill symbols, in the order of the tuple (named by code point where the
\* symbol is not ASCII).
BASE_CHARACTERS ==
  << " ", "#", "U+2022", "U+2B24", "U+23FA", "U+25CF", "U+2B29", "U+2666" >>

\* A glyph is modelled by its geometry: the length of each of its rows, top
\* to bottom.  Glyph is a glyph whose rows all have length w, Ragged one
\* whose first row has length w1 and whose other rows have length w.
Glyph(rows, w) == [r \in 1..rows |-> w]
Ragged(rows, w1, w) == [r \in 1..rows |-> IF r = 1 THEN w1 ELSE w]

\* A font dictionary, by key: " ", "-", ".", the ten digits (which have the
\* same geometry in every font), "?", "i", "m" and "n".
Font(g_space, g_minus, g_dot, g_digit, g_q, g_i, g_m, g_n) ==
  [space |-> g_space, minus |-> g_minus, dot |-> g_dot, digit |-> g_digit,
   q |-> g_q, i |-> g_i, m |-> g_m, n |-> g_n]

\* Faulty variant of CHAR_SET1, for sensitivity checks: the hyphen is one
\* column wider than the space.
CHAR_SET1_WideHyphen ==
  Font(Glyph(8, 4), Glyph(8, 5), Glyph(8, 2), Glyph(8, 6), Glyph(8, 6),
       Glyph(8, 2), Glyph(8, 8), Glyph(8, 6))

CHAR_SET1 ==
  Font(Glyph(8, 4), Glyph(8, 4), Glyph(8, 2), Glyph(8, 6), Glyph(8, 6),
       Glyph(8, 2), Glyph(8, 8), Glyph(8, 6))
CHAR_SET2 ==
  Font(Glyph(8, 5), Glyph(8, 5), Glyph(8, 2), Glyph(8, 8), Glyph(8, 8),
       Glyph(8, 2), Glyph(8, 8), Glyph(8, 6))
CHAR_SET3 ==
  Font(Glyph(10, 5), Glyph(10, 5), Glyph(10, 3), Glyph(10, 8), Glyph(10, 8),
       Ragged(10, 2, 3), Glyph(10, 10), Glyph(10, 8))
CHAR_SET4 ==
  Font(Glyph(11, 5), Glyph(11, 5), Glyph(11, 3), Glyph(11, 10), Glyph(11, 8),
       Ragged(11, 2, 3), Glyph(11, 10), Glyph(11, 8))

CHAR_SETS == << CHAR_SET1, CHAR_SET2, CHAR_SET3, CHAR_SET4 >>

\* ------------------------------------------------------------ characters
Digits == {"0", "1", "2", "3", "4", "5", "6", "7", "8", "9"}
Spaces == {" ", "\t", "\n", "\r", "\f"}

DigitVal(c) ==
  CASE c = "0" -> 0 [] c = "1" -> 1 [] c = "2" -> 2 [] c = "3" -> 3
    [] c = "4" -> 4 [] c = "5" -> 5 [] c = "6" -> 6 [] c = "7" -> 7
    [] c = "8" -> 8 [] c = "9" -> 9

DigitChar(n) ==
  CASE n = 0 -> "0" [] n = 1 -> "1" [] n = 2 -> "2" [] n = 3 -> "3"
    [] n = 4 -> "4" [] n = 5 -> "5" [] n = 6 -> "6" [] n = 7 -> "7"
    [] n = 8 -> "8" [] n = 9 -> "9"

RECURSIVE Pow10(_)
Pow10(k) == IF k = 0 THEN 1 ELSE 10 * Pow10(k - 1)

\* list.index / tuple.index: the 0-based position of the first equal element.
IndexOf(seq, x) ==
  (CHOOSE i \in 1..Len(seq) :
     /\ seq[i] = x
     /\ \A j \in 1..(i - 1) : seq[j] # x) - 1

\* --------------------------------------------------------- INDICATOR_RE
\* The end (exclusive) of the longest run, starting at i, of characters that
\* are in S (inS = TRUE) or not in S (inS = FALSE): a greedy \d+, \s+, \S+.
RunEnd(s, i, S, inS) ==
  CHOOSE j \in i..(Len(s) + 1) :
    /\ \A k \in i..(j - 1) : (s[k] \in S) = inS
    /\ (j = Len(s) + 1 \/ (s[j] \in S) # inS)

NoMatch == [matched |-> FALSE, number |-> << >>, unit |-> << >>]

\* re.compile(r'(?P<number>-?\d+\.\d+)\s+(?P<unit>\S+)').match(s): anchored
\* at the start of s, not at its end.  Every quantifier is greedy and no
\* shorter run can make a later item match, so the scan is deterministic.
INDICATOR_RE_match(s) ==
  LET i1 == IF Len(s) >= 1 /\ s[1] = "-" THEN 2 ELSE 1
      i2 == RunEnd(s, i1, Digits, TRUE)
      i3 == RunEnd(s, i2 + 1, Digits, TRUE)
      i4 == RunEnd(s, i3, Spaces, TRUE)
      i5 == RunEnd(s, i4, Spaces, FALSE)
  IN  IF i2 = i1 \/ i2 > Len(s) THEN NoMatch
      ELSE IF s[i2] # "." THEN NoMatch
      ELSE IF i3 = i2 + 1 THEN NoMatch
      ELSE IF i4 = i3 THEN NoMatch
      ELSE IF i5 = i4 THEN NoMatch
      ELSE [matched |-> TRUE,
            number |-> SubSeq(s, 1, i3 - 1),
            unit |-> SubSeq(s, i4, i5 - 1)]

\* ------------------------------------------------------------- numbers
\* A Python number is the exact decimal num / 10^scale, kept in lowest
\* terms (1.50 and 1.5 are the same float); kind "str" is a Python string.
RECURSIVE Normal(_, _)
Normal(num, scale) ==
  IF scale > 0 /\ num % 10 = 0 THEN Normal(num \div 10, scale - 1)
  ELSE [kind |-> "num", num |-> num, scale |-> scale]

RECURSIVE DigitsValue(_)
DigitsValue(ds) ==
  IF ds = << >> THEN 0
  ELSE 10 * DigitsValue(SubSeq(ds, 1, Len(ds) - 1)) + DigitVal(ds[Len(ds)])

\* Faulty variant of float, for sensitivity checks: the sign of the literal is dropped.
float_Unsigned(text) ==
  LET body == IF text[1] = "-" THEN Tail(text) ELSE text
      dot == CHOOSE i \in 1..Len(body) : body[i] = "."
      fp == SubSeq(body, dot + 1, Len(body))
  IN  Normal(DigitsValue(SubSeq(body, 1, dot - 1)) * Pow10(Len(fp))
               + DigitsValue(fp), Len(fp))

\* float(text) for a text the pattern's number group matched.
float(text) ==
  LET neg == text[1] = "-"
      body == IF neg THEN Tail(text) ELSE text
      dot == CHOOSE i \in 1..Len(body) : body[i] = "."
      ip == SubSeq(body, 1, dot - 1)
      fp == SubSeq(body, dot + 1, Len(body))
      mag == DigitsValue(ip) * Pow10(Len(fp)) + DigitsValue(fp)
  IN  Normal(IF neg THEN -mag ELSE mag, Len(fp))


\* ---------------------------------------------------------- serial bytes
LEAD == "<C2>"      \* first byte of the UTF-8 encoding of the micro sign
CONT == "<B5>"      \* its continuation byte

\* bytes.decode('utf8'): every ASCII byte is its character, LEAD CONT is the
\* micro sign, and a LEAD without its CONT or a CONT without its LEAD raises
\* UnicodeDecodeError (ok = FALSE).
RECURSIVE decode(_)
decode(bytes) ==
  IF bytes = << >> THEN [ok |-> TRUE, text |-> << >>]
  ELSE IF bytes[1] = CONT THEN [ok |-> FALSE, text |-> << >>]
  ELSE IF bytes[1] = LEAD
    THEN IF Len(bytes) >= 2 /\ bytes[2] = CONT
         THEN LET r == decode(SubSeq(bytes, 3, Len(bytes)))
              IN  [ok |-> r.ok, text |-> << "u" >> \o r.text]
         ELSE [ok |-> FALSE, text |-> << >>]
  ELSE LET r == decode(Tail(bytes))
       IN  [ok |-> r.ok, text |-> << bytes[1] >> \o r.text]

\* Serial.read_until() with timeout=0: the bytes that have arrived, up to and
\* including the first terminator.
ReadLen(w) ==
  IF \E i \in 1..Len(w) : w[i] = "\n"
  THEN CHOOSE i \in 1..Len(w) : w[i] = "\n" /\ \A j \in 1..(i - 1) : w[j] # "\n"
  ELSE Len(w)

read_until(w) == SubSeq(w, 1, ReadLen(w))

\* str.endswith('\n')
endswith_nl(s) == Len(s) >= 1 /\ s[Len(s)] = "\n"

\* ------------------------------------------------------ IndicatorDisplay
mm == << "m", "m" >>
inch == << "i", "n" >>
xx == << "x", "x" >>

Placeholder == [kind |-> "str", text |-> << "9", ".", "9", "9", "9" >>]

NoFrame == [num_str |-> << >>, color_pair |-> 0, char_set |-> 0, base_char |-> ""]

\* Faulty variant of NewDisplay, for sensitivity checks: the blank fill
\* symbol is the starting style, the pairs still the on-black ones.
NewDisplay_BlankOnBlack ==
  [pair_positive |-> COLOR_PAIR_GRN_ON_BLK,
   pair_negative |-> COLOR_PAIR_RED_ON_BLK,
   color_pair |-> COLOR_PAIR_GRN_ON_BLK,
   char_set |-> CHAR_SETS[1],
   base_char |-> BASE_CHARACTERS[1],
   number |-> [kind |-> "num", num |-> 0, scale |-> 0],
   unit |-> mm]

\* The object IndicatorDisplay.__init__ builds.
NewDisplay ==
  [pair_positive |-> COLOR_PAIR_GRN_ON_BLK,
   pair_negative |-> COLOR_PAIR_RED_ON_BLK,
   color_pair |-> COLOR_PAIR_GRN_ON_BLK,
   char_set |-> CHAR_SETS[1],
   base_char |-> BASE_CHARACTERS[5],
   number |-> [kind |-> "num", num |-> 0, scale |-> 0],
   unit |-> mm]

RECURSIVE IntStr(_)
IntStr(n) ==
  IF n < 10 THEN << DigitChar(n) >>
  ELSE IntStr(n \div 10) \o << DigitChar(n % 10) >>

RECURSIVE FracStr(_, _)
FracStr(n, d) ==
  IF d = 0 THEN << >> ELSE FracStr(n \div 10, d - 1) \o << DigitChar(n % 10) >>

\* f'{abs(n):0.{d}f}': the magnitude with exactly d decimals.  A value with
\* more than d decimals is rounded to the nearest.  Python decides an exact
\* decimal tie by the binary value of the float, which the decimal model
\* does not carry: here the tie goes to the even neighbour, and no line the
\* specifications send has one.
Fixed(n, d) ==
  LET a == IF n.num < 0 THEN -n.num ELSE n.num
      m == IF n.scale <= d THEN a * Pow10(d - n.scale)
           ELSE LET p == Pow10(n.scale - d)
                    q == a \div p
                    r == a % p
                IN  IF 2 * r > p \/ (2 * r = p /\ q % 2 = 1) THEN q + 1 ELSE q
  IN  IntStr(m \div Pow10(d)) \o << "." >> \o FracStr(m % Pow10(d), d)

\* Faulty variant of update_page, for sensitivity checks: the sign is not
\* looked at, the positive pair is always made active.
update_page_AlwaysPositive(self) ==
  IF self.number.kind = "str"
  THEN [self |-> self, exc |-> "TypeError"]
  ELSE [self |-> [self EXCEPT !.color_pair = self.pair_positive],
        exc |-> "none"]

\* IndicatorDisplay.update_page, its effect on the object.  Comparing the
\* string placeholder with 0 raises TypeError before anything is assigned
\* or drawn.
update_page(self) ==
  IF self.number.kind = "str"
  THEN [self |-> self, exc |-> "TypeError"]
  ELSE
    LET sign == IF self.number.num < 0 THEN "-" ELSE " "
        cp == IF sign = "-" THEN self.pair_negative ELSE self.pair_positive
    IN  [self |-> [self EXCEPT !.color_pair = cp], exc |-> "none"]

\* Faulty variant of refresh, for sensitivity checks: two decimals whatever
\* the unit.
refresh_TwoDecimals(self) ==
  LET n == self.number
      sign == IF n.num < 0 THEN "-" ELSE " "
  IN  [num_str |-> << sign >> \o Fixed(n, 2) \o << " " >> \o self.unit,
       color_pair |-> self.color_pair,
       char_set |-> IndexOf(CHAR_SETS, self.char_set) + 1,
       base_char |-> self.base_char]

\* The frame a completed update_page has drawn and flushed for the object it
\* leaves: the text of num_str, composed of the glyphs of the font with the
\* fill symbol under the active color pair.
refresh(self) ==
  LET d == IF self.unit = mm THEN 2 ELSE 4
      n == self.number
      sign == IF n.num < 0 THEN "-" ELSE " "
  IN  [num_str |-> << sign >> \o Fixed(n, d) \o << " " >> \o self.unit,
       color_pair |-> self.color_pair,
       char_set |-> IndexOf(CHAR_SETS, self.char_set) + 1,
       base_char |-> self.base_char]

\* IndicatorDisplay.display_number
display_number(self, number) ==
  LET m == INDICATOR_RE_match(number)
      parsed == IF ~m.matched
                THEN [self EXCEPT !.number = Placeholder, !.unit = xx]
                ELSE [self EXCEPT !.number = float(m.number),
                                  !.unit = IF m.unit = mm THEN mm ELSE inch]
  IN  update_page(parsed)

\* Faulty variant of handle_f1, for sensitivity checks: the displayed value
\* is reset with the font.
handle_f1_ResetsValue(self) ==
  LET i == (IndexOf(CHAR_SETS, self.char_set) + 1) % Len(CHAR_SETS)
  IN  update_page([self EXCEPT !.char_set = CHAR_SETS[i + 1],
                               !.number = NewDisplay.number])

\* IndicatorDisplay.handle_f1
handle_f1(self) ==
  LET i == (IndexOf(CHAR_SETS, self.char_set) + 1) % Len(CHAR_SETS)
  IN  update_page([self EXCEPT !.char_set = CHAR_SETS[i + 1]])

\* Faulty variant of handle_f2, for sensitivity checks: the pairs are switched for the blank symbol and never
\* switched back.
handle_f2_KeepsPairs(self) ==
  LET i == (IndexOf(BASE_CHARACTERS, self.base_char) + 1) % Len(BASE_CHARACTERS)
      b == BASE_CHARACTERS[i + 1]
      styled == IF b = " "
                THEN [self EXCEPT !.base_char = b,
                                  !.pair_positive = COLOR_PAIR_GRN_ON_GRN,
                                  !.pair_negative = COLOR_PAIR_RED_ON_RED]
                ELSE [self EXCEPT !.base_char = b]
  IN  update_page(styled)

\* IndicatorDisplay.handle_f2
handle_f2(self) ==
  LET i == (IndexOf(BASE_CHARACTERS, self.base_char) + 1) % Len(BASE_CHARACTERS)
      b == BASE_CHARACTERS[i + 1]
      styled == IF b = " "
                THEN [self EXCEPT !.base_char = b,
                                  !.pair_positive = COLOR_PAIR_GRN_ON_GRN,
                                  !.pair_negative = COLOR_PAIR_RED_ON_RED]
                ELSE [self EXCEPT !.base_char = b,
                                  !.pair_positive = COLOR_PAIR_GRN_ON_BLK,
                                  !.pair_negative = COLOR_PAIR_RED_ON_BLK]
  IN  update_page(styled)

\* What stdscr.get_wch() returns: a str (one character, by code point) or an
\* int key code; NoInput stands for the curses.error of an empty poll and
\* Chr(-1) for the empty string.
Chr(o) == [t |-> "str", v |-> o]
Key(k) == [t |-> "int", v |-> k]
NoInput == [t |-> "error", v |-> 0]

\* curses.ascii.isctrl
isctrl(o) == 0 <= o /\ o < 32

\* Faulty variant of get_input, for sensitivity checks: only ESC ends the loop, EOT is ignored.
get_input_EscOnly(self, wch) ==
  LET nothing == [self |-> self, exc |-> "none"]
  IN  IF wch = NoInput
      THEN [ret |-> FALSE, called |-> FALSE, res |-> nothing]
      ELSE IF wch.t = "str" /\ isctrl(wch.v) /\ wch.v = ESC
      THEN [ret |-> TRUE, called |-> FALSE, res |-> nothing]
      ELSE IF wch.t = "int" /\ wch.v = "KEY_RESIZE"
      THEN [ret |-> FALSE, called |-> TRUE, res |-> update_page(self)]
      ELSE IF wch.t = "int" /\ wch.v = "KEY_F1"
      THEN [ret |-> FALSE, called |-> TRUE, res |-> handle_f1(self)]
      ELSE IF wch.t = "int" /\ wch.v = "KEY_F2"
      THEN [ret |-> FALSE, called |-> TRUE, res |-> handle_f2(self)]
      ELSE [ret |-> FALSE, called |-> FALSE, res |-> nothing]

\* IndicatorDisplay.get_input applied to the polled event wch.  ret is the
\* truth of the returned value; called tells whether a method that repaints
\* was invoked and res is that method's outcome.
get_input(self, wch) ==
  LET nothing == [self |-> self, exc |-> "none"]
  IN  IF wch = NoInput
      THEN [ret |-> FALSE, called |-> FALSE, res |-> nothing]
      ELSE IF wch = Chr(-1)        \* "not wch": the empty string
      THEN [ret |-> FALSE, called |-> FALSE, res |-> nothing]
      ELSE IF wch.t = "str" /\ isctrl(wch.v) /\ wch.v \in {ESC, EOT}
      THEN [ret |-> TRUE, called |-> FALSE, res |-> nothing]
      ELSE IF wch.t = "int" /\ wch.v = "KEY_RESIZE"
      THEN [ret |-> FALSE, called |-> TRUE, res |-> update_page(self)]
      ELSE IF wch.t = "int" /\ wch.v = "KEY_F1"
      THEN [ret |-> FALSE, called |-> TRUE, res |-> handle_f1(self)]
      ELSE IF wch.t = "int" /\ wch.v = "KEY_F2"
      THEN [ret |-> FALSE, called |-> TRUE, res |-> handle_f2(self)]
      ELSE [ret |-> FALSE, called |-> FALSE, res |-> nothing]


\* ------------------------------------------------------------ the terminal
\* A cell of the terminal shows pixel c of row r of the glyph of ch, written
\* with the fill symbol sym under the color pair pair; a character of the
\* foot note is the cell of its text and position.
Cell(ch, r, c, sym, pair) == << ch, r, c, sym, pair >>
BlankCell == Cell(" ", 0, 0, " ", 0)
StaleCell == Cell("stale", 0, 0, " ", 0)

BlankLine == [c \in 1..MaxCols |-> BlankCell]
StaleLine == [c \in 1..MaxCols |-> StaleCell]

\* A terminal of the geometry yx whose cells hold what an earlier program
\* or an earlier geometry left there.
StaleScreen(yx) == [r \in 1..yx.rows |-> SubSeq(StaleLine, 1, yx.cols)]

\* The curses window: its cells, the cursor (y, x) and the flag ncurses sets
\* when a character written in the last column moved the cursor on.
Window(cells) == [cells |-> cells, y |-> 0, x |-> 0, wrapped |-> FALSE]

Rows(W) == Len(W.cells)
Cols(W) == Len(W.cells[1])

\* window.move(y, x): curses.error outside the window.
move(W, y, x) ==
  IF y >= 0 /\ y < Rows(W) /\ x >= 0 /\ x < Cols(W)
  THEN [w |-> [W EXCEPT !.y = y, !.x = x, !.wrapped = FALSE], err |-> FALSE]
  ELSE [w |-> W, err |-> TRUE]

\* window.addch(c): the cell under the cursor is written and the cursor
\* advances; from the last column it goes to the start of the next row, and
\* from the bottom right corner it cannot advance: curses.error, the cell
\* written all the same.
addch(W, c) ==
  LET cells == [W.cells EXCEPT ![W.y + 1][W.x + 1] = c]
  IN  IF W.x < Cols(W) - 1
      THEN [w |-> [W EXCEPT !.cells = cells, !.x = W.x + 1], err |-> FALSE]
      ELSE IF W.y < Rows(W) - 1
      THEN [w |-> [W EXCEPT !.cells = cells, !.y = W.y + 1, !.x = 0,
                            !.wrapped = TRUE],
            err |-> FALSE]
      ELSE [w |-> [W EXCEPT !.cells = cells, !.wrapped = TRUE], err |-> TRUE]

\* Faulty variant of clrtoeol, for sensitivity checks: nothing is blanked.
clrtoeol_Nothing(W) == W

\* window.clrtoeol(): blanks from the cursor to the end of its row; after a
\* wrap onto the last row ncurses clears nothing.  Never raises.
clrtoeol(W) ==
  IF W.wrapped /\ W.y = Rows(W) - 1 THEN W
  ELSE [W EXCEPT !.wrapped = FALSE,
                 !.cells[W.y + 1] =
                    SubSeq(@, 1, W.x) \o SubSeq(BlankLine, 1, Cols(W) - W.x)]

\* window.clrtobot(): blanks from the cursor to the end of the window.
\* Never raises.
clrtobot(W) ==
  [W EXCEPT !.cells =
     [r \in 1..Rows(W) |->
        IF r < W.y + 1 THEN W.cells[r]
        ELSE IF r = W.y + 1
        THEN SubSeq(W.cells[r], 1, W.x) \o SubSeq(BlankLine, 1, Cols(W) - W.x)
        ELSE SubSeq(BlankLine, 1, Cols(W))]]

\* The addch calls of one row of a glyph, pixels j..n, each followed by
\* clrtoeol; a curses.error ends the row (it is caught around the row).
\* DrawRowOn goes on from the outcome a of one addch.
RECURSIVE DrawRow(_, _, _, _, _, _, _)
RECURSIVE DrawRowOn(_, _, _, _, _, _, _)
DrawRowOn(a, ch, r, j, n, sym, pair) ==
  IF a.err THEN a.w ELSE DrawRow(clrtoeol(a.w), ch, r, j + 1, n, sym, pair)

DrawRow(W, ch, r, j, n, sym, pair) ==
  IF j > n THEN W
  ELSE DrawRowOn(addch(W, Cell(ch, r, j, sym, pair)), ch, r, j, n, sym, pair)

\* window.addstr(y, x, text) for the text named by note, of n characters:
\* move, then one addch per character (AddChars from character k, AddCharsOn
\* from the outcome a of one addch); curses.error from either.
RECURSIVE AddChars(_, _, _, _)
RECURSIVE AddCharsOn(_, _, _, _)
AddCharsOn(a, note, k, n) ==
  IF a.err THEN a ELSE AddChars(a.w, note, k + 1, n)

AddChars(W, note, k, n) ==
  IF k > n THEN [w |-> W, err |-> FALSE]
  ELSE AddCharsOn(addch(W, Cell(note, 0, k, " ", 0)), note, k, n)

AddStrAt(m, note, n) == IF m.err THEN m ELSE AddChars(m.w, note, 1, n)

addstr(W, y, x, note, n) == AddStrAt(move(W, y, x), note, n)

\* self.char_set.get(ch, self.char_set['?'])
get(char_set, ch) ==
  IF ch = " " THEN char_set.space
  ELSE IF ch = "-" THEN char_set.minus
  ELSE IF ch = "." THEN char_set.dot
  ELSE IF ch \in Digits THEN char_set.digit
  ELSE IF ch = "i" THEN char_set.i
  ELSE IF ch = "m" THEN char_set.m
  ELSE IF ch = "n" THEN char_set.n
  ELSE char_set.q

\* One row of a glyph in _display_char, from the outcome m of its move: a
\* row whose move raises is skipped.
DrawLine(m, ch, r, n, sym, pair) ==
  IF m.err THEN m.w ELSE DrawRow(m.w, ch, r, 1, n, sym, pair)

\* The loop over the rows of a glyph in _display_char: rows i.. of display
\* are drawn on the terminal rows row.., each from start_col.
RECURSIVE DrawLines(_, _, _, _, _, _, _)
DrawLines(W, self, ch, display, i, row, start_col) ==
  IF i > Len(display) THEN W
  ELSE DrawLines(DrawLine(move(W, row, start_col), ch, i, display[i],
                          self.base_char, self.color_pair),
                 self, ch, display, i + 1, row + 1, start_col)

\* The end of _display_char: the cursor is put on the starting row at the
\* column the drawing ended in; this move is outside every try.
Moved(m) == [w |-> m.w, exc |-> IF m.err THEN "curses.error" ELSE "none"]

Park(drawn, start_row) == Moved(move(drawn, start_row, drawn.x))

\* Faulty variant of display_char, for sensitivity checks: no try around
\* the rows, so the move to a row below the terminal propagates.
display_char_Uncaught(W, self, ch) ==
  IF W.y + Len(get(self.char_set, ch)) > Rows(W)
  THEN [w |-> W, exc |-> "curses.error"]
  ELSE Park(DrawLines(W, self, ch, get(self.char_set, ch), 1, W.y, W.x), W.y)

\* IndicatorDisplay._display_char: the glyph of ch is drawn from the cursor.
display_char(W, self, ch) ==
  Park(DrawLines(W, self, ch, get(self.char_set, ch), 1, W.y, W.x), W.y)

\* IndicatorDisplay._foot_note: both lines and the clear are in one try.
FootClear(a2) == IF a2.err THEN a2.w ELSE clrtobot(a2.w)

FootSecond(a1) ==
  IF a1.err THEN a1.w
  ELSE FootClear(addstr(a1.w, Rows(a1.w) - 1, 0,
                        "F1 - Change font, F2 - Change style", 35))

foot_note(W) ==
  FootSecond(addstr(W, Rows(W) - 2, 0, "<ESC> or <EOT> to exit", 22))

\* The loop "for ch in num_str: self._display_char(ch)" from character k
\* (DisplayNext from the outcome d of one _display_char); starts collects
\* the column each glyph was started in.
RECURSIVE DisplayChars(_, _, _, _, _)
RECURSIVE DisplayNext(_, _, _, _, _)
DisplayNext(d, self, num_str, k, starts) ==
  IF d.exc # "none" THEN [w |-> d.w, exc |-> d.exc, starts |-> starts]
  ELSE DisplayChars(d.w, self, num_str, k + 1, starts)

DisplayChars(W, self, num_str, k, starts) ==
  IF k > Len(num_str) THEN [w |-> W, exc |-> "none", starts |-> starts]
  ELSE DisplayNext(display_char(W, self, num_str[k]), self, num_str, k,
                   Append(starts, W.x))

\* The try after the loop: move under the glyphs and clear to the bottom.
ClearBelow(m1) == IF m1.err THEN m1.w ELSE clrtobot(m1.w)

\* update_page after its loop, from the loop's outcome d.
PaintBelow(d, self) ==
  IF d.exc # "none"
  THEN [cells |-> d.w.cells, exc |-> d.exc, starts |-> d.starts]
  ELSE [cells |->
          foot_note(ClearBelow(move(d.w, Len(self.char_set.digit), 0))).cells,
        exc |-> "none", starts |-> d.starts]

\* update_page from the outcome m0 of stdscr.move(0, 0), which is outside
\* every try.
PaintFrom(m0, self) ==
  IF m0.err
  THEN [cells |-> m0.w.cells, exc |-> "curses.error", starts |-> << >>]
  ELSE PaintBelow(DisplayChars(m0.w, self, refresh(self).num_str, 1, << >>),
                  self)

\* The drawing calls of IndicatorDisplay.update_page for the object self on
\* a terminal that holds cells: the cells stdscr.refresh() flushes, the
\* exception that propagated if one did, and the start columns of the
\* glyphs.
Paint(self, cells) == PaintFrom(move(Window(cells), 0, 0), self)

\* ------------------------------------------------------------- the state
VARIABLES
  pc,          \* "start", "init", "setup", "select" (the loop's wait), "exited"
  monitor,     \* the serial handle: "none", "open", "closed"
  stdscr,      \* the terminal: "none", "acquired" (initscr), "released" (endwin)
  id,          \* the IndicatorDisplay object (NewDisplay's fields)
  frame,       \* the frame last flushed to the terminal by refresh()
  line,        \* select_loop's line buffer (text)
  wire,        \* bytes that have arrived at the serial port, not yet read
  sending,     \* bytes of the line in transmission that have not arrived yet
  linesSent,   \* lines the instrument has started to send
  inputQ,      \* events get_wch() will return, oldest first
  resizeReady, \* the SIGWINCH signalfd is readable: the signal is pending
  events,      \* what the process did to its resources and exit, in order
  exception,   \* the exception that ended select_loop, "none" if none
  exitStatus,  \* the exit status once pc = "exited", -1 before
  calls,       \* the arguments of the display_number calls that the last
               \* loop iteration made
  rlist,       \* select_loop's rlist: the descriptors the last select returned
  args,        \* main's parsed arguments: list_ports and port ("None" if absent)
  port_list,   \* what list_ports.comports() returns: the device names in order
  port,        \* IndicatorReader.port, "None" before the reader is built
  printed,     \* what GetPort has printed, line by line
  maxyx,       \* the terminal's geometry, stdscr.getmaxyx()
  screen       \* the cells of the terminal, row by row (followed by RenderSpec)

vars == << pc, monitor, stdscr, id, frame, line, wire, sending, linesSent,
           inputQ, resizeReady, events, exception, exitStatus, calls, rlist,
           args, port_list, port, printed, maxyx, screen >>

\* main's start-up state, settled before select_loop runs.
startup == << args, port_list, port, printed >>

\* The terminal as the drawing calls see it.
term == << maxyx, screen >>

env == << wire, sending, linesSent, inputQ, resizeReady >>

\* Lines the instrument may send (bytes, terminator included).
SampleLines ==
  { << "1", ".", "5", " ", "m", "m", "\n" >>,
    << "-", "0", ".", "5", " ", "i", "n", "\n" >>,
    << LEAD, CONT, "\n" >> }

\* Events the keyboard may deliver.
KeyEvents ==
  { Chr(ESC), Chr(EOT), Chr(97), Key("KEY_F1"), Key("KEY_F2") }

IOErrors == {"SerialException", "OSError"}

Init ==
  /\ pc = "start"
  /\ monitor = "none"
  /\ stdscr = "none"
  /\ id = NewDisplay
  /\ frame = NoFrame
  /\ line = << >>
  /\ wire = << >>
  /\ sending = << >>
  /\ linesSent = 0
  /\ inputQ = << >>
  /\ resizeReady = FALSE
  /\ events = << >>
  /\ exception = "none"
  /\ exitStatus = -1
  /\ calls = << >>
  /\ rlist = {}
  /\ args = [list_ports |-> FALSE, port |-> "/dev/ttyUSB0"]
  /\ port_list = << >>
  /\ port = "/dev/ttyUSB0"
  /\ printed = << >>
  /\ maxyx = [rows |-> 24, cols |-> 80]
  /\ screen = << >>

\* ------------------------------------------------------- leaving the loop
\* The process is gone: the bytes and events it never read are of no
\* consequence and the instrument is not followed further.
Discard ==
  /\ wire' = << >>
  /\ sending' = << >>
  /\ inputQ' = << >>
  /\ resizeReady' = FALSE
  /\ UNCHANGED linesSent

\* Faulty variant of Raise, for sensitivity checks: no __exit__ around the loop, endwin is skipped.
Raise_SkipsEndwin(exc) ==
  /\ pc' = "exited"
  /\ Discard
  /\ exception' = exc
  /\ stdscr' = stdscr
  /\ monitor' = IF monitor = "open" THEN "closed" ELSE monitor
  /\ events' = events
       \o (IF monitor = "open" THEN << "close" >> ELSE << >>)
       \o (IF exc \in IOErrors THEN << "print" >> ELSE << "traceback" >>)
       \o << "exit" >>
  /\ exitStatus' = IF exc \in IOErrors THEN 255 ELSE 1
  /\ UNCHANGED << startup, term >>

\* Faulty variant of Raise, for sensitivity checks: the port is not opened in the with statement and stays
\* open when the exception leaves it.
Raise_LeavesPortOpen(exc) ==
  /\ pc' = "exited"
  /\ Discard
  /\ exception' = exc
  /\ stdscr' = IF pc \in {"setup", "select"} THEN "released" ELSE stdscr
  /\ monitor' = monitor
  /\ events' = events
       \o (IF pc \in {"setup", "select"} THEN << "endwin" >> ELSE << >>)
       \o (IF exc \in IOErrors THEN << "print" >> ELSE << "traceback" >>)
       \o << "exit" >>
  /\ exitStatus' = IF exc \in IOErrors THEN 255 ELSE 1
  /\ UNCHANGED << startup, term >>

\* An exception exc leaves the with statement: IndicatorDisplay.__exit__
\* (endwin, returns None so exc propagates) when the display was entered,
\* then Serial.__exit__ (close) when the port was opened; "except IOError"
\* prints and calls sys.exit(-1), anything else is an uncaught traceback.
Raise(exc) ==
  /\ pc' = "exited"
  /\ Discard
  /\ exception' = exc
  /\ stdscr' = IF pc \in {"setup", "select"} THEN "released" ELSE stdscr
  /\ monitor' = IF monitor = "open" THEN "closed" ELSE monitor
  /\ events' = events
       \o (IF pc \in {"setup", "select"} THEN << "endwin" >> ELSE << >>)
       \o (IF monitor = "open" THEN << "close" >> ELSE << >>)
       \o (IF exc \in IOErrors THEN << "print" >> ELSE << "traceback" >>)
       \o << "exit" >>
  /\ exitStatus' = IF exc \in IOErrors THEN 255 ELSE 1
  /\ UNCHANGED startup
  /\ UNCHANGED maxyx
  /\ screen' = screen

\* break: the with statement ends normally, select_loop and main return.
Break ==
  /\ pc' = "exited"
  /\ Discard
  /\ exception' = "none"
  /\ stdscr' = "released"
  /\ monitor' = "closed"
  /\ events' = events \o << "endwin", "close", "exit" >>
  /\ exitStatus' = 0
  /\ UNCHANGED << startup, term >>

\* The loop goes on to its next select.
Stay == UNCHANGED << pc, monitor, stdscr, events, exception, exitStatus,
                     startup, term >>

\* ---------------------------------------------------------------- startup
\* serial.Serial(port, baudrate, timeout=0) succeeds.
OpenSerial ==
  /\ pc = "start"
  /\ pc' = "init"
  /\ monitor' = "open"
  /\ events' = events \o << "open" >>
  /\ UNCHANGED << stdscr, id, frame, line, exception, exitStatus, env, calls, rlist,
                  startup, term >>

\* Faulty variant of OpenSerialFails, for sensitivity checks: the display is the first item of the with
\* statement, so the screen is acquired before the open fails.
OpenSerialFails_AfterInitscr ==
  /\ pc = "start"
  /\ pc' = "exited"
  /\ Discard
  /\ exception' = "SerialException"
  /\ stdscr' = "released"
  /\ monitor' = monitor
  /\ events' = events \o << "initscr", "__enter__", "endwin", "print", "exit" >>
  /\ exitStatus' = 255
  /\ UNCHANGED << id, frame, line, calls, rlist, startup, term >>

\* serial.Serial raises: SerialException (an IOError) for a device that
\* cannot be opened, ValueError for a parameter out of range.
OpenSerialFails ==
  /\ pc = "start"
  /\ \E exc \in {"SerialException", "ValueError"} : Raise(exc)
  /\ UNCHANGED << id, frame, line, calls, rlist >>

\* IndicatorDisplay() and __enter__ succeed.
InitDisplay ==
  /\ pc = "init"
  /\ pc' = "setup"
  /\ stdscr' = "acquired"
  /\ id' = NewDisplay
  /\ events' = events \o << "initscr", "__enter__" >>
  /\ UNCHANGED << monitor, frame, line, exception, exitStatus, env, calls, rlist,
                  startup, term >>

\* IndicatorDisplay.__init__ raises curses.error after initscr (init_color on
\* a terminal that cannot change colors, init_pair): no object, so no
\* __exit__ and no endwin.
InitDisplayFails ==
  /\ pc = "init"
  /\ stdscr' = "acquired"
  /\ pc' = "exited"
  /\ exception' = "curses.error"
  /\ monitor' = "closed"
  /\ events' = events \o << "initscr", "close", "traceback", "exit" >>
  /\ exitStatus' = 1
  /\ UNCHANGED << id, frame, line, env, calls, rlist, startup, term >>

\* fileno() of the three sources, signalfd(), line = ''.
SetupLoop ==
  /\ pc = "setup"
  /\ pc' = "select"
  /\ line' = << >>
  /\ UNCHANGED << monitor, stdscr, id, frame, events, exception, exitStatus,
                  env, calls, rlist, startup, term >>

\* signalfd() raises OSError.
SetupLoopFails ==
  /\ pc = "setup"
  /\ Raise("OSError")
  /\ UNCHANGED << id, frame, line, calls, rlist >>

\* --------------------------------------------------------------- the loop
IsResize(e) == e.t = "int" /\ e.v = "KEY_RESIZE"

\* stdin is readable: a typed key is waiting.
StdinReady == \E i \in 1..Len(inputQ) : ~IsResize(inputQ[i])

\* What select.select(inputs, [], []) returns as rlist; it blocks while this
\* is empty.  SIGWINCH is not blocked, so a signal that made resize_fd
\* readable is delivered to the handler curses installed as soon as select
\* returns, whichever descriptors it returns: nothing reads resize_fd, and
\* it is no longer readable at the next select.
Select ==
  (IF wire # << >> THEN {"indicator_fd"} ELSE {})
    \cup (IF StdinReady THEN {"stdin_fd"} ELSE {})
    \cup (IF resizeReady THEN {"resize_fd"} ELSE {})

\* Faulty variant of ReadSerial, for sensitivity checks: line is not reset
\* after display_number.
ReadSerial_KeepsLine ==
  /\ pc = "select"
  /\ wire # << >>
  /\ rlist' = Select
  /\ LET chars == read_until(wire)
         dec == decode(chars)
         text == line \o dec.text
         r == display_number(id, text)
         consumed == /\ wire' = SubSeq(wire, Len(chars) + 1, Len(wire))
                     /\ resizeReady' = FALSE
                     /\ UNCHANGED << sending, linesSent, inputQ >>
     IN  IF ~dec.ok
         THEN /\ Raise("UnicodeDecodeError")
              /\ calls' = << >>
              /\ UNCHANGED << id, frame, line >>
         ELSE IF ~endswith_nl(text)
         THEN /\ line' = text
              /\ calls' = << >>
              /\ consumed
              /\ Stay
              /\ UNCHANGED << id, frame >>
         ELSE /\ calls' = << text >>
              /\ id' = r.self
              /\ IF r.exc = "none"
                 THEN /\ frame' = refresh(r.self)
                      /\ line' = text
                      /\ consumed
                      /\ Stay
                 ELSE /\ Raise(r.exc)
                      /\ line' = text
                      /\ UNCHANGED frame

\* One iteration with indicator_fd in rlist: read_until, decode, append, and
\* display_number when the buffer ends with the terminator.
ReadSerial ==
  /\ pc = "select"
  /\ wire # << >>
  /\ rlist' = Select
  /\ LET chars == read_until(wire)
         dec == decode(chars)
         text == line \o dec.text
         r == display_number(id, text)
         consumed == /\ wire' = SubSeq(wire, Len(chars) + 1, Len(wire))
                     /\ resizeReady' = FALSE
                     /\ UNCHANGED << sending, linesSent, inputQ >>
     IN  IF ~dec.ok
         THEN /\ Raise("UnicodeDecodeError")
              /\ calls' = << >>
              /\ UNCHANGED << id, frame, line >>
         ELSE IF ~endswith_nl(text)
         THEN /\ line' = text
              /\ calls' = << >>
              /\ consumed
              /\ Stay
              /\ UNCHANGED << id, frame >>
         ELSE /\ calls' = << text >>
              /\ id' = r.self
              /\ IF r.exc = "none"
                 THEN /\ frame' = refresh(r.self)
                      /\ line' = << >>
                      /\ consumed
                      /\ Stay
                 ELSE /\ Raise(r.exc)
                      /\ line' = text
                      /\ UNCHANGED frame

\* monitor.read_until() raises SerialException (the device reported ready and
\* returned no data: it was unplugged).
SerialReadFails ==
  /\ pc = "select"
  /\ Raise("SerialException")
  /\ calls' = << >>
  /\ rlist' = Select \cup {"indicator_fd"}
  /\ UNCHANGED << id, frame, line >>

\* Faulty variant of PollInput, for sensitivity checks: the signal stays
\* pending, resize_fd is still readable after the iteration.
PollInput_KeepsReady ==
  /\ pc = "select"
  /\ wire = << >>
  /\ StdinReady \/ resizeReady
  /\ rlist' = Select
  /\ LET wch == IF inputQ = << >> THEN NoInput ELSE Head(inputQ)
         g == get_input(id, wch)
         polled == /\ inputQ' = IF inputQ = << >> THEN inputQ ELSE Tail(inputQ)
                   /\ UNCHANGED << wire, sending, linesSent, resizeReady >>
     IN  /\ calls' = << >>
         /\ IF g.ret
            THEN /\ Break
                 /\ UNCHANGED << id, frame >>
            ELSE IF ~g.called
            THEN /\ Stay
                 /\ polled
                 /\ UNCHANGED << id, frame >>
            ELSE /\ id' = g.res.self
                 /\ IF g.res.exc = "none"
                    THEN /\ frame' = refresh(g.res.self)
                         /\ Stay
                         /\ polled
                    ELSE /\ Raise(g.res.exc)
                         /\ UNCHANGED frame
  /\ UNCHANGED line

\* One iteration with indicator_fd not in rlist: id.get_input(), break when
\* it returns True.
PollInput ==
  /\ pc = "select"
  /\ wire = << >>
  /\ StdinReady \/ resizeReady
  /\ rlist' = Select
  /\ LET wch == IF inputQ = << >> THEN NoInput ELSE Head(inputQ)
         g == get_input(id, wch)
         polled == /\ inputQ' = IF inputQ = << >> THEN inputQ ELSE Tail(inputQ)
                   /\ resizeReady' = FALSE
                   /\ UNCHANGED << wire, sending, linesSent >>
     IN  /\ calls' = << >>
         /\ IF g.ret
            THEN /\ Break
                 /\ UNCHANGED << id, frame >>
            ELSE IF ~g.called
            THEN /\ Stay
                 /\ polled
                 /\ UNCHANGED << id, frame >>
            ELSE /\ id' = g.res.self
                 /\ IF g.res.exc = "none"
                    THEN /\ frame' = refresh(g.res.self)
                         /\ Stay
                         /\ polled
                    ELSE /\ Raise(g.res.exc)
                         /\ UNCHANGED frame
  /\ UNCHANGED line

\* select.select raises OSError.
SelectFails ==
  /\ pc = "select"
  /\ Raise("OSError")
  /\ calls' = << >>
  /\ UNCHANGED rlist
  /\ UNCHANGED << id, frame, line >>

\* SIGINT while the loop waits: KeyboardInterrupt is raised in the loop body.
Interrupt ==
  /\ pc = "select"
  /\ Raise("KeyboardInterrupt")
  /\ calls' = << >>
  /\ UNCHANGED rlist
  /\ UNCHANGED << id, frame, line >>

\* ------------------------------------------------------- the environment
Prog == << pc, monitor, stdscr, id, frame, line, events, exception,
           exitStatus, calls, rlist, startup, term >>

\* The instrument starts to send a line.
InstrumentSends ==
  /\ pc = "select"
  /\ sending = << >>
  /\ linesSent < MaxLines
  /\ \E l \in SampleLines : sending' = l
  /\ linesSent' = linesSent + 1
  /\ UNCHANGED << Prog, wire, inputQ, resizeReady >>

\* Some of the bytes in transmission arrive at the port.
SerialArrive ==
  /\ pc = "select"
  /\ sending # << >>
  /\ \E k \in 1..Len(sending) :
       /\ wire' = wire \o SubSeq(sending, 1, k)
       /\ sending' = SubSeq(sending, k + 1, Len(sending))
  /\ UNCHANGED << Prog, linesSent, inputQ, resizeReady >>

\* A key is typed.
KeyPress ==
  /\ pc = "select"
  /\ Len(inputQ) < MaxPending
  /\ \E e \in KeyEvents : inputQ' = Append(inputQ, e)
  /\ UNCHANGED << Prog, wire, sending, linesSent, resizeReady >>

\* The terminal is resized (SIGWINCH): curses returns KEY_RESIZE from the
\* next get_wch, ahead of the typed keys.  The signalfd is readable (viaFd)
\* when the signal arrives while the loop waits in select; a signal that
\* arrives while the loop is busy goes straight to the handler.
Resize ==
  /\ pc = "select"
  /\ Len(inputQ) < MaxPending
  /\ \A i \in 1..Len(inputQ) : ~IsResize(inputQ[i])
  /\ inputQ' = << Key("KEY_RESIZE") >> \o inputQ
  /\ \E viaFd \in BOOLEAN : resizeReady' = (resizeReady \/ viaFd)
  /\ UNCHANGED << Prog, wire, sending, linesSent >>

Next ==
  \/ OpenSerial
  \/ OpenSerialFails
  \/ InitDisplay
  \/ InitDisplayFails
  \/ SetupLoop
  \/ SetupLoopFails
  \/ ReadSerial
  \/ SerialReadFails
  \/ PollInput
  \/ SelectFails
  \/ Interrupt
  \/ InstrumentSends
  \/ SerialArrive
  \/ KeyPress
  \/ Resize

Spec == Init /\ [][Next]_vars

\* ------------------------------------------------ the parser on all lines
\* Every line of at most MaxLineLen characters over ParseAlphabet has fully
\* arrived when the loop, just set up, reads it.
ParseAlphabet == {"-", "1", "0", ".", " ", "m"}

ParseLines ==
  UNION { [1..n -> ParseAlphabet] : n \in 0..MaxLineLen }

ParseInit ==
  /\ pc = "select"
  /\ monitor = "open"
  /\ stdscr = "acquired"
  /\ id = NewDisplay
  /\ frame = NoFrame
  /\ line = << >>
  /\ \E l \in ParseLines : wire = l \o << "\n" >>
  /\ sending = << >>
  /\ linesSent = 1
  /\ inputQ = << >>
  /\ resizeReady = FALSE
  /\ events = << "open", "initscr", "__enter__" >>
  /\ exception = "none"
  /\ exitStatus = -1
  /\ calls = << >>
  /\ rlist = {}
  /\ args = [list_ports |-> FALSE, port |-> "/dev/ttyUSB0"]
  /\ port_list = << >>
  /\ port = "/dev/ttyUSB0"
  /\ printed = << >>
  /\ maxyx = [rows |-> 24, cols |-> 80]
  /\ screen = << >>

ParseNext == ReadSerial

ParseSpec == ParseInit /\ [][ParseNext]_vars

\* --------------------------------------------- the drawing on a terminal
\* The loop with the terminal followed cell by cell: every repaint draws on
\* what the terminal holds, under the geometry it has.
RenderRows == {1, 2, 9, MaxRows}
RenderCols == {1, 30, MaxCols}
Geometries == [rows : RenderRows, cols : RenderCols]

\* Lines the instrument sends in RenderSpec (text, terminator included).
RenderLines ==
  { << "1", "2", ".", "3", " ", "m", "m", "\n" >>,
    << "-", "0", ".", "5", " ", "i", "n", "\n" >>,
    << "1", ".", "2", "3", "6", " ", "m", "m", "\n" >> }

\* The display objects the loop is entered with here: the fill symbol is the
\* initial one or, after F2 has wrapped round, the blank one with its pairs.
RenderObjects ==
  { NewDisplay,
    [NewDisplay EXCEPT !.base_char = BASE_CHARACTERS[1],
                       !.pair_positive = COLOR_PAIR_GRN_ON_GRN,
                       !.pair_negative = COLOR_PAIR_RED_ON_RED,
                       !.color_pair = COLOR_PAIR_GRN_ON_GRN] }

RenderInit ==
  /\ pc = "select"
  /\ monitor = "open"
  /\ stdscr = "acquired"
  /\ id \in RenderObjects
  /\ frame = NoFrame
  /\ line = << >>
  /\ wire = << >>
  /\ sending = << >>
  /\ linesSent = 0
  /\ inputQ = << >>
  /\ resizeReady = FALSE
  /\ events = << "open", "initscr", "__enter__" >>
  /\ exception = "none"
  /\ exitStatus = -1
  /\ calls = << >>
  /\ rlist = {}
  /\ args = [list_ports |-> FALSE, port |-> "/dev/ttyUSB0"]
  /\ port_list = << >>
  /\ port = "/dev/ttyUSB0"
  /\ printed = << >>
  /\ maxyx \in Geometries
  /\ screen = StaleScreen(maxyx)

\* A method that ends in update_page has run with the outcome r of its
\* assignments: the drawing calls follow on the terminal as it is (their
\* outcome is p), and an exception of either leaves the with statement
\* uncaught.
Drawn(self, p) ==
  /\ pc = "select"
  /\ id' = self
  /\ screen' = p.cells
  /\ IF p.exc = "none"
     THEN /\ frame' = refresh(self)
          /\ UNCHANGED << pc, monitor, stdscr, events, exception, exitStatus >>
     ELSE /\ frame' = frame
          /\ pc' = "exited"
          /\ exception' = p.exc
          /\ stdscr' = "released"
          /\ monitor' = "closed"
          /\ events' = events \o << "endwin", "close", "traceback", "exit" >>
          /\ exitStatus' = 1
  /\ UNCHANGED << line, wire, sending, linesSent, resizeReady, rlist, startup,
                  maxyx >>

Draw(r) ==
  Drawn(r.self,
        IF r.exc = "none" THEN Paint(r.self, screen)
        ELSE [cells |-> screen, exc |-> r.exc, starts |-> << >>])

\* get_input reads the KEY_RESIZE of the last resize: update_page.
Repaint ==
  /\ inputQ = << Key("KEY_RESIZE") >>
  /\ inputQ' = << >>
  /\ Draw(update_page(id))
  /\ calls' = << >>

\* get_input reads KEY_F1: handle_f1.
CycleFont ==
  /\ inputQ = << >>
  /\ inputQ' = << >>
  /\ Draw(handle_f1(id))
  /\ calls' = << >>

\* A complete line is read: display_number.
ShowLine ==
  /\ \E l \in RenderLines : Draw(display_number(id, l)) /\ calls' = << l >>
  /\ UNCHANGED inputQ

\* The terminal takes another geometry: the window is resized with it, its
\* cells kept where the geometries overlap and blank elsewhere, and
\* KEY_RESIZE waits to be read.
TerminalResized ==
  /\ pc = "select"
  /\ inputQ = << >>
  /\ inputQ' = << Key("KEY_RESIZE") >>
  /\ \E g \in Geometries \ {maxyx} :
       /\ maxyx' = g
       /\ screen' =
            [r \in 1..g.rows |->
               [c \in 1..g.cols |->
                  IF r <= maxyx.rows /\ c <= maxyx.cols THEN screen[r][c]
                  ELSE BlankCell]]
  /\ UNCHANGED << pc, monitor, stdscr, id, frame, line, events, exception,
                  exitStatus, calls, rlist, wire, sending, linesSent, resizeReady,
                  startup >>

RenderNext == Repaint \/ CycleFont \/ ShowLine \/ TerminalResized

RenderSpec == RenderInit /\ [][RenderNext]_vars

\* ------------------------------------------------------- main's start-up
\* main after parse_args: the flags are read and, unless a port was given
\* without the list flag, GetPort looks the serial devices up.
MaxPorts == 2

\* args.port when -p was not given.
None == "None"

Devices == {"/dev/ttyUSB0", "/dev/ttyACM0", "/dev/ttyS0"}

\* One entry of list_ports.comports(): (port, desc, hwid).
ListPortInfo(p) == << p, "n/a", "n/a" >>

\* The line GetPort prints for an entry of comports().
Listing(info) ==
  << "port=", info[1], ", desc=", info[2], ", hwid=", info[3] >>

Notice == << "No ports found" >>

\* What comports() can return: up to MaxPorts distinct devices.
PortLists ==
  { l \in UNION { [1..n -> Devices] : n \in 0..MaxPorts } :
      \A i, j \in 1..Len(l) : l[i] = l[j] => i = j }

\* Python's truth value of args.port: None and the empty string are false.
Truthy(p) == p \notin {None, ""}

StartInit ==
  /\ pc = "main"
  /\ monitor = "none"
  /\ stdscr = "none"
  /\ id = NewDisplay
  /\ frame = NoFrame
  /\ line = << >>
  /\ wire = << >>
  /\ sending = << >>
  /\ linesSent = 0
  /\ inputQ = << >>
  /\ resizeReady = FALSE
  /\ events = << >>
  /\ exception = "none"
  /\ exitStatus = -1
  /\ calls = << >>
  /\ rlist = {}
  /\ args \in [list_ports : BOOLEAN, port : {None, ""} \cup Devices]
  /\ \E l \in PortLists : port_list = [i \in 1..Len(l) |-> ListPortInfo(l[i])]
  /\ port = args.port
  /\ printed = << >>
  /\ maxyx = [rows |-> 24, cols |-> 80]
  /\ screen = << >>

\* sys.exit(0) in GetPort, after the given lines were printed.
GetPortExits(lines) ==
  /\ pc' = "exited"
  /\ Discard
  /\ printed' = lines
  /\ events' = events \o << "comports", "print", "exit" >>
  /\ exitStatus' = 0
  /\ UNCHANGED << monitor, stdscr, id, frame, line, exception, calls, rlist, args,
                  port_list, port, term >>

\* main calls GetPort.
CallsGetPort == pc = "main" /\ (args.list_ports \/ ~Truthy(args.port))

\* GetPort, comports() returned nothing: the notice and exit 0.
GetPortNone ==
  /\ CallsGetPort
  /\ port_list = << >>
  /\ GetPortExits(<< Notice >>)

\* GetPort, list_only or more than one port: every entry is printed, exit 0.
GetPortLists ==
  /\ CallsGetPort
  /\ port_list # << >>
  /\ args.list_ports \/ Len(port_list) > 1
  /\ GetPortExits([i \in 1..Len(port_list) |-> Listing(port_list[i])])

\* Faulty variant of GetPortReturns, for sensitivity checks: without the list
\* flag the first port is returned however many there are.
GetPortReturns_FirstOfMany ==
  /\ CallsGetPort
  /\ port_list # << >>
  /\ ~args.list_ports
  /\ pc' = "start"
  /\ port' = port_list[1][1]
  /\ events' = events \o << "comports" >>
  /\ UNCHANGED << monitor, stdscr, id, frame, line, exception, exitStatus, env,
                  calls, rlist, args, port_list, printed, term >>

\* GetPort, the only port available is returned and main goes on with it.
GetPortReturns ==
  /\ CallsGetPort
  /\ port_list # << >>
  /\ ~(args.list_ports \/ Len(port_list) > 1)
  /\ pc' = "start"
  /\ port' = port_list[1][1]
  /\ events' = events \o << "comports" >>
  /\ UNCHANGED << monitor, stdscr, id, frame, line, exception, exitStatus, env,
                  calls, rlist, args, port_list, printed, term >>

\* main with a port given and no list flag: GetPort is not called.
PortGiven ==
  /\ pc = "main"
  /\ ~(args.list_ports \/ ~Truthy(args.port))
  /\ pc' = "start"
  /\ port' = args.port
  /\ UNCHANGED << monitor, stdscr, id, frame, line, events, exception,
                  exitStatus, env, calls, rlist, args, port_list, printed, term >>

StartNext ==
  \/ GetPortNone
  \/ GetPortLists
  \/ GetPortReturns
  \/ PortGiven
  \/ OpenSerial
  \/ OpenSerialFails

StartSpec == StartInit /\ [][StartNext]_vars

\* ----------------------------------------------- the loop without an end
\* The loop, set up, with an instrument that never stops sending readings:
\* the only assumption is that the loop does not stop taking iterations
\* while one is possible.
MaxWire == 8

LiveLines ==
  { << "1", ".", "5", " ", "m", "m", "\n" >>,
    << "-", "0", ".", "5", " ", "i", "n", "\n" >> }

LiveInit ==
  /\ pc = "select"
  /\ monitor = "open"
  /\ stdscr = "acquired"
  /\ id = NewDisplay
  /\ frame = NoFrame
  /\ line = << >>
  /\ wire = << >>
  /\ sending = << >>
  /\ linesSent = 0
  /\ inputQ = << >>
  /\ resizeReady = FALSE
  /\ events = << "open", "initscr", "__enter__" >>
  /\ exception = "none"
  /\ exitStatus = -1
  /\ calls = << >>
  /\ rlist = {}
  /\ args = [list_ports |-> FALSE, port |-> "/dev/ttyUSB0"]
  /\ port_list = << >>
  /\ port = "/dev/ttyUSB0"
  /\ printed = << >>
  /\ maxyx = [rows |-> 24, cols |-> 80]
  /\ screen = << >>

\* The instrument starts on its next reading.
InstrumentStreams ==
  /\ pc = "select"
  /\ sending = << >>
  /\ \E l \in LiveLines : sending' = l
  /\ UNCHANGED << Prog, wire, linesSent, inputQ, resizeReady >>

\* Some of the bytes in transmission arrive at the port, whose buffer holds
\* MaxWire bytes.
SerialArrives ==
  /\ pc = "select"
  /\ sending # << >>
  /\ \E k \in 1..Len(sending) :
       /\ Len(wire) + k <= MaxWire
       /\ wire' = wire \o SubSeq(sending, 1, k)
       /\ sending' = SubSeq(sending, k + 1, Len(sending))
  /\ UNCHANGED << Prog, linesSent, inputQ, resizeReady >>

\* A key is typed: a quit key or a key the program ignores.
LiveKeys == { Chr(ESC), Chr(EOT), Chr(97) }

QuitKeyPress ==
  /\ pc = "select"
  /\ Len(inputQ) < MaxPending
  /\ \E e \in LiveKeys : inputQ' = Append(inputQ, e)
  /\ UNCHANGED << Prog, wire, sending, linesSent, resizeReady >>

\* The serial branch of an iteration, told by what it does to the port's
\* buffer: the bytes read_until returns are taken off it.  With well-formed
\* lines on the wire these are the ReadSerial steps and no others, and one
\* is possible exactly when ReadSerial is.
Reads ==
  /\ pc = "select"
  /\ wire # << >>
  /\ wire' = SubSeq(wire, ReadLen(wire) + 1, Len(wire))

LiveNext ==
  \/ ReadSerial
  \/ PollInput
  \/ InstrumentStreams
  \/ SerialArrives
  \/ QuitKeyPress

\* The loop does not stop: the branch that stays possible is taken.
LiveSpec ==
  LiveInit /\ [][LiveNext]_vars /\ WF_wire(Reads) /\ WF_vars(PollInput)

\* ------------------------------------------------ lines in any chunks
\* The loop, set up, with a stream of up to MaxStream well-formed lines on
\* its way: the bytes arrive in chunks of any sizes, across the ends of
\* lines too, and keys are typed in between.
MaxStream == 2

StreamLines ==
  { << "1", ".", "5", " ", "m", "m", "\n" >>,
    << "-", "0", ".", "5", " ", "i", "n", "\n" >>,
    << "1", "2", ".", "3", "4", " ", "m", "m", "\n" >> }

RECURSIVE Flatten(_)
Flatten(ls) == IF ls = << >> THEN << >> ELSE Head(ls) \o Flatten(Tail(ls))

Streams ==
  { Flatten(ls) : ls \in UNION { [1..n -> StreamLines] : n \in 1..MaxStream } }

StreamInit ==
  /\ pc = "select"
  /\ monitor = "open"
  /\ stdscr = "acquired"
  /\ id = NewDisplay
  /\ frame = NoFrame
  /\ line = << >>
  /\ wire = << >>
  /\ sending \in Streams
  /\ linesSent = 0
  /\ inputQ = << >>
  /\ resizeReady = FALSE
  /\ events = << "open", "initscr", "__enter__" >>
  /\ exception = "none"
  /\ exitStatus = -1
  /\ calls = << >>
  /\ rlist = {}
  /\ args = [list_ports |-> FALSE, port |-> "/dev/ttyUSB0"]
  /\ port_list = << >>
  /\ port = "/dev/ttyUSB0"
  /\ printed = << >>
  /\ maxyx = [rows |-> 24, cols |-> 80]
  /\ screen = << >>

StreamNext ==
  \/ ReadSerial
  \/ PollInput
  \/ SerialArrive
  \/ QuitKeyPress

StreamSpec == StreamInit /\ [][StreamNext]_vars

\* ------------------------------------------------------------ properties
Count(e, seq) == Cardinality({i \in 1..Len(seq) : seq[i] = e})

Precedes(a, b, seq) ==
  \A j \in 1..Len(seq) : seq[j] = b => \E i \in 1..(j - 1) : seq[i] = a

\* The argument of the display_number call of the last loop iteration does
\* not match the pattern.
MalformedShown == calls # << >> /\ ~INDICATOR_RE_match(calls[1]).matched

\* C1: a complete serial line that does not match the pattern never stops
\* the loop: after the iteration that displayed it the loop is at its next
\* wait and no error has propagated.
C1_MalformedLineKeepsLoop ==
  MalformedShown => pc = "select" /\ exception = "none"

\* C2: for every line that does not match the pattern, display_number ends
\* with the numeric placeholder 9.999 and unit xx stored, and its repaint
\* completes, the flushed frame showing that placeholder.
C2_PlaceholderShown ==
  MalformedShown =>
    /\ id.number.kind = "num"
    /\ id.number = float(<< "9", ".", "9", "9", "9" >>)
    /\ id.unit = xx
    /\ exception = "none"
    /\ frame # NoFrame
    /\ frame.num_str =
         << " " >> \o Fixed(float(<< "9", ".", "9", "9", "9" >>), 4)
                   \o << " " >> \o xx

\* The pattern, stated over a text s by the five positions that split it:
\* an optional "-" (sg), digits up to p, ".", digits up to q, white space up
\* to w, and the unit token, the whole run of non-space characters, up to e.
IntPart(s, sg, p) ==
  /\ sg = 1 => s[1] = "-"
  /\ sg < p /\ p < Len(s)
  /\ \A k \in (sg + 1)..p : s[k] \in Digits
  /\ s[p + 1] = "."

FracPart(s, p, q) ==
  /\ p + 1 < q
  /\ \A k \in (p + 2)..q : s[k] \in Digits

UnitPart(s, q, w, e) ==
  /\ q < w /\ \A k \in (q + 1)..w : s[k] \in Spaces
  /\ w < e /\ \A k \in (w + 1)..e : s[k] \notin Spaces
  /\ e = Len(s) \/ s[e + 1] \in Spaces

\* P holds of every way to split s by the pattern.
EverySplit(s, P(_, _, _, _, _)) ==
  \A sg \in {0, 1} : \A p \in 1..Len(s) :
    IntPart(s, sg, p) =>
      \A q \in 1..Len(s) :
        FracPart(s, p, q) =>
          \A w \in 1..Len(s) : \A e \in 1..Len(s) :
            UnitPart(s, q, w, e) => P(sg, p, q, w, e)

Matches(s) ==
  LET Never(sg, p, q, w, e) == FALSE
  IN  ~EverySplit(s, Never)

\* The magnitude of the decimal literal with integer digits s[a..p] and
\* fraction digits s[p+2..q], in units of 10^-(q-p-1).
RECURSIVE LiteralUnits(_, _, _, _)
LiteralUnits(s, a, p, q) ==
  IF q < a THEN 0
  ELSE IF q = p + 1 THEN LiteralUnits(s, a, p, p)
  ELSE 10 * LiteralUnits(s, a, p, q - 1) + DigitVal(s[q])

\* C3: for every line that matches <optional '-'><digits>.<digits>
\* <whitespace><unit-token>, display_number does not take the failure
\* branch: it stores the value of the signed decimal literal, and the unit
\* 'mm' exactly when the unit token is mm and 'in' for any other token.
C3_MatchingLineParsed ==
  calls # << >> =>
    LET s == calls[1]
        Parsed(sg, p, q, w, e) ==
          LET mag == LiteralUnits(s, sg + 1, p, q)
              lit == IF sg = 1 THEN -mag ELSE mag
              scale == q - p - 1
              token == SubSeq(s, w + 1, e)
          IN  /\ exception = "none"
              /\ id.number.kind = "num"
              /\ id.number.num * Pow10(scale) = lit * Pow10(id.number.scale)
              /\ id.unit = IF token = << "m", "m" >> THEN mm ELSE inch
              /\ id.unit # xx
    IN  EverySplit(s, Parsed)

\* C3 witness: a negative reading with a unit token other than mm has been
\* displayed as inches.
C3_Witness ==
  /\ calls # << >>
  /\ Matches(calls[1])
  /\ id.number.kind = "num"
  /\ id.number.num < 0
  /\ id.unit = inch
  /\ frame # NoFrame

\* What the next ReadSerial step reads and the text the buffer would hold.
Chars == read_until(wire)
ReadText == line \o decode(Chars).text

\* C4: when the bytes read complete a line, the loop calls display_number
\* exactly once, with the line without its terminator, and the line buffer
\* is empty afterwards.
C4_CompleteLineDisplayedStripped ==
  [][(ReadSerial /\ endswith_nl(Chars)) =>
       /\ calls' = << SubSeq(ReadText, 1, Len(ReadText) - 1) >>
       /\ line' = << >>]_vars

\* C5: bytes read that do not end in a terminator are retained: they decode
\* to a new text, the line buffer is its previous content followed by that
\* text, display_number is not called and the display state is unchanged.
C5_PartialBytesRetained ==
  [][(ReadSerial /\ ~endswith_nl(Chars)) =>
       /\ decode(Chars).ok
       /\ line' = line \o decode(Chars).text
       /\ calls' = << >>
       /\ id' = id
       /\ frame' = frame]_vars

\* C6: once the display object exists (the with body was entered), however
\* the loop exits, endwin has run exactly once when the process has exited;
\* it never runs twice and never while the loop runs.
C6_EndwinExactlyOnce ==
  /\ Count("endwin", events) <= 1
  /\ pc \in {"setup", "select"} => Count("endwin", events) = 0
  /\ (pc = "exited" /\ Count("__enter__", events) = 1) =>
       /\ Count("endwin", events) = 1
       /\ stdscr = "released"

\* C6 witness: an uncaught fault raised in the loop body (the TypeError of
\* the repaint) ended the loop and endwin ran once.
C6_Witness ==
  /\ pc = "exited"
  /\ exception = "TypeError"
  /\ Count("__enter__", events) = 1
  /\ Count("endwin", events) = 1

\* C7: if opening the serial device fails, the error is reported, the exit
\* status is non-zero and the screen was never acquired; initscr only ever
\* follows a successful open.
C7_OpenFailureLeavesTerminal ==
  /\ Precedes("open", "initscr", events)
  /\ (pc = "exited" /\ Count("open", events) = 0) =>
       /\ exitStatus \notin {-1, 0}
       /\ stdscr = "none"
       /\ Count("initscr", events) = 0
       /\ Count("print", events) + Count("traceback", events) = 1

\* C7 witness: the open raised SerialException and the process exited 255
\* with the terminal untouched.
C7_Witness ==
  /\ pc = "exited"
  /\ exception = "SerialException"
  /\ Count("open", events) = 0
  /\ exitStatus = 255
  /\ stdscr = "none"

\* C8: if select fails while the loop runs, the loop ends, the screen and
\* the serial handle are released before the process exits, and the exit
\* status is non-zero.
C8_SelectFailureReleasesBoth ==
  [][SelectFails =>
       /\ pc' = "exited"
       /\ stdscr' = "released"
       /\ monitor' = "closed"
       /\ Precedes("endwin", "exit", events')
       /\ Precedes("close", "exit", events')
       /\ Count("exit", events') = 1
       /\ exitStatus' \notin {-1, 0}]_vars

\* C8 witness: the loop had read part of a line when an OSError ended it;
\* both handles are released.
C8_Witness ==
  /\ pc = "exited"
  /\ exception = "OSError"
  /\ line # << >>
  /\ stdscr = "released"
  /\ monitor = "closed"
  /\ exitStatus = 255

\* The event the next PollInput step polls.
Polled == IF inputQ = << >> THEN NoInput ELSE Head(inputQ)

IsQuit(e) == e.t = "str" /\ e.v \in {ESC, EOT}
IsKey(e, k) == e.t = "int" /\ e.v = k

\* C9: a polled event ends the loop if and only if it is ESC or EOT; F1
\* runs handle_f1, F2 runs handle_f2, a resize runs update_page, and any
\* other key or an empty poll changes nothing, raises nothing and leaves
\* the loop running.
C9_KeyDispatch ==
  [][PollInput =>
       /\ (pc' = "exited") <=> IsQuit(Polled)
       /\ IsQuit(Polled) => exception' = "none" /\ exitStatus' = 0
       /\ IsKey(Polled, "KEY_F1") =>
            id' = handle_f1(id).self /\ frame' = refresh(id')
       /\ IsKey(Polled, "KEY_F2") =>
            id' = handle_f2(id).self /\ frame' = refresh(id')
       /\ IsKey(Polled, "KEY_RESIZE") =>
            id' = update_page(id).self /\ frame' = refresh(id')
       /\ ~(\/ IsKey(Polled, "KEY_F1") \/ IsKey(Polled, "KEY_F2")
            \/ IsKey(Polled, "KEY_RESIZE")) =>
            id' = id /\ frame' = frame
       /\ exception' = "none"]_vars

\* C9 witness: F1 and F2 were each dispatched once and then a quit key ended
\* the loop normally.
C9_Witness ==
  /\ pc = "exited"
  /\ exception = "none"
  /\ exitStatus = 0
  /\ id.char_set = CHAR_SETS[2]
  /\ id.base_char = BASE_CHARACTERS[6]

RECURSIVE F1Times(_, _)
F1Times(self, k) ==
  IF k = 0 THEN self ELSE F1Times(handle_f1(self).self, k - 1)

RECURSIVE F2Times(_, _)
F2Times(self, k) ==
  IF k = 0 THEN self ELSE F2Times(handle_f2(self).self, k - 1)

\* C10: from every display state of the running loop, handle_f1 applied
\* len(CHAR_SETS) times gives back the font, and handle_f2 applied
\* len(BASE_CHARACTERS) times gives back the fill symbol and both color
\* pairs; one application of either advances its index by exactly one modulo
\* the size of its tuple.
C10_Cycling ==
  pc \in {"setup", "select"} =>
    LET f1 == F1Times(id, Len(CHAR_SETS))
        f2 == F2Times(id, Len(BASE_CHARACTERS))
    IN  /\ f1.char_set = id.char_set
        /\ f2.base_char = id.base_char
        /\ f2.pair_positive = id.pair_positive
        /\ f2.pair_negative = id.pair_negative
        /\ IndexOf(CHAR_SETS, handle_f1(id).self.char_set)
             = (IndexOf(CHAR_SETS, id.char_set) + 1) % Len(CHAR_SETS)
        /\ IndexOf(BASE_CHARACTERS, handle_f2(id).self.base_char)
             = (IndexOf(BASE_CHARACTERS, id.base_char) + 1)
                 % Len(BASE_CHARACTERS)

\* C10 witness: F2 has wrapped round to the blank fill symbol with the
\* same-on-same pairs, and F1 has reached the last font.
C10_Witness ==
  /\ pc = "select"
  /\ id.base_char = BASE_CHARACTERS[1]
  /\ id.pair_positive = COLOR_PAIR_GRN_ON_GRN
  /\ id.pair_negative = COLOR_PAIR_RED_ON_RED
  /\ id.char_set = CHAR_SETS[Len(CHAR_SETS)]

\* C11: whatever operation painted last (display_number, handle_f1,
\* handle_f2, a resize), the active color pair is the current negative pair
\* when the value is below zero and the current positive pair when it is
\* zero or more, and the flushed frame is drawn with that pair; this holds
\* under every font and fill symbol the keys can select.
C11_SignMapping ==
  /\ (id.number.kind = "num" /\ id.number.num < 0) =>
       id.color_pair = id.pair_negative
  /\ (id.number.kind = "num" /\ id.number.num >= 0) =>
       id.color_pair = id.pair_positive
  /\ (id.number.kind = "num" /\ frame # NoFrame) =>
       frame.color_pair = id.color_pair

\* C11 witness: a negative reading was displayed after F1 and F2 had changed
\* the font and switched to the blank fill symbol: red on red is active.
C11_Witness ==
  /\ pc = "select"
  /\ id.number.kind = "num" /\ id.number.num < 0
  /\ id.base_char = " "
  /\ id.char_set # CHAR_SETS[1]
  /\ id.color_pair = COLOR_PAIR_RED_ON_RED
  /\ frame.color_pair = COLOR_PAIR_RED_ON_RED

\* The digits of a rendered magnitude, the decimal point left out.
Magnitude(body, d) ==
  SubSeq(body, 1, Len(body) - d - 1) \o SubSeq(body, Len(body) - d + 1, Len(body))

Abs(n) == IF n < 0 THEN -n ELSE n

\* C12: the text every repaint renders is the sign character ("-" for a
\* value below zero, a space otherwise), the magnitude as digits, a point
\* and exactly 2 decimals for mm or exactly 4 for in (the decimal nearest
\* to the value), a space and the unit; 12.3 mm is rendered " 12.30 mm" and
\* -0.5 in is rendered "-0.5000 in".
C12_Formatting ==
  frame # NoFrame =>
    LET s == frame.num_str
        n == Len(s)
        d == IF id.unit = mm THEN 2 ELSE 4
        body == SubSeq(s, 2, n - 3)
        k == Len(body)
    IN  /\ id.unit \in {mm, inch}
        /\ s[1] = (IF id.number.num < 0 THEN "-" ELSE " ")
        /\ SubSeq(s, n - 2, n) = << " " >> \o id.unit
        /\ k >= d + 2
        /\ body[k - d] = "."
        /\ \A i \in (1..k) \ {k - d} : body[i] \in Digits
        /\ (k - d - 1 > 1) => body[1] # "0"
        /\ 2 * Abs(Abs(id.number.num) * Pow10(d)
                   - DigitsValue(Magnitude(body, d)) * Pow10(id.number.scale))
             <= Pow10(id.number.scale)
        /\ (id.number = Normal(123, 1) /\ id.unit = mm) =>
             s = << " ", "1", "2", ".", "3", "0", " ", "m", "m" >>
        /\ (id.number = Normal(-5, 1) /\ id.unit = inch) =>
             s = << "-", "0", ".", "5", "0", "0", "0", " ", "i", "n" >>

\* C12 witness: -0.5 in was received and is on the terminal with its four
\* decimals.
C12_Witness ==
  /\ pc = "select"
  /\ id.number = Normal(-5, 1)
  /\ id.unit = inch
  /\ frame.num_str = << "-", "0", ".", "5", "0", "0", "0", " ", "i", "n" >>
  /\ screen # StaleScreen(maxyx)

\* C13: once main is past its start-up: when the devices were looked up and
\* there are none, the notice is printed and the exit status is 0; with the
\* list flag, or with more than one device and no port selected, every
\* device is listed, the exit status is 0 and no port was opened; with
\* exactly one device, no port selected and no list flag, that device is
\* the port the program goes on with; a port selected without the list flag
\* is the port the program goes on with and the devices were not looked up.
C13_DeviceSelection ==
  LET selected == args.port \notin {None, ""}
      n == Len(port_list)
      opened == Count("open", events) > 0
      looked == Count("comports", events) > 0
  IN  pc # "main" =>
        /\ ((args.list_ports \/ ~selected) /\ n = 0) =>
             /\ pc = "exited" /\ exitStatus = 0
             /\ printed = << Notice >>
             /\ ~opened
        /\ (args.list_ports \/ (n > 1 /\ ~selected)) =>
             /\ pc = "exited" /\ exitStatus = 0
             /\ \A i \in 1..n : \E k \in 1..Len(printed) :
                  printed[k] = Listing(port_list[i])
             /\ ~opened /\ monitor = "none"
        /\ (n = 1 /\ ~selected /\ ~args.list_ports) =>
             /\ port = port_list[1][1]
             /\ printed = << >>
             /\ exitStatus # 0
             /\ pc = "init" => (opened /\ monitor = "open")
        /\ (selected /\ ~args.list_ports) =>
             /\ port = args.port
             /\ ~looked
             /\ printed = << >>
             /\ exitStatus # 0
             /\ pc = "init" => (opened /\ monitor = "open")

\* C13 witness: two devices and no flag at all: both were listed and the
\* program has exited with status 0, no port opened.
C13_Witness ==
  /\ pc = "exited"
  /\ ~args.list_ports /\ args.port = None
  /\ Len(port_list) = 2
  /\ printed = << Listing(port_list[1]), Listing(port_list[2]) >>
  /\ exitStatus = 0
  /\ monitor = "none"

\* C14: whatever the terminal geometry, down to a single cell and with
\* fewer rows or columns than the glyphs and the footer need, and whatever
\* value, font and fill symbol are displayed, no repaint lets an error out:
\* the loop is still running after it, nothing was raised and the process
\* has not exited.
C14_ResizeRobust ==
  /\ pc = "select"
  /\ exception = "none"
  /\ exitStatus = -1
  /\ stdscr = "acquired"
  /\ Count("traceback", events) = 0

\* C14 witness: a line was displayed on a terminal of one row, which is
\* less than the glyphs are high, and the loop goes on.
C14_Witness ==
  /\ pc = "select"
  /\ maxyx.rows < Len(id.char_set.digit)
  /\ maxyx.rows = 1
  /\ calls # << >>
  /\ frame # NoFrame
  /\ screen # StaleScreen(maxyx)
  /\ exception = "none"

\* C15: a repaint that nothing but a resize event preceded leaves the
\* display object as it was, and the cells it leaves on the terminal are
\* those the same object gives on a terminal of this geometry that held
\* something else entirely; repainting once more, straight on top of them,
\* gives the same cells again.
C15_RepaintIdempotent ==
  [][Repaint =>
       /\ id' = id
       /\ frame' = refresh(id)
       /\ screen' = Paint(id, StaleScreen(maxyx)).cells
       /\ Paint(id', screen').exc = "none"
       /\ Paint(id', screen').cells = screen']_vars

\* C15 witness: a reading other than the initial one was displayed, the
\* terminal then took a geometry too narrow for the text, and the repaint
\* that followed has left the frame of that reading.
C15_Witness ==
  /\ pc = "select"
  /\ calls = << >>
  /\ inputQ = << >>
  /\ id.number.num # 0
  /\ maxyx.cols = 30
  /\ frame = refresh(id)
  /\ screen = Paint(id, StaleScreen(maxyx)).cells

\* The display object with the value of the opposite sign displayed.
Negated(self) == update_page([self EXCEPT !.number.num = -@]).self

\* C18: in each of the fonts the glyph of the space and the glyph of the
\* hyphen have rows of the same lengths, and whatever reading is displayed,
\* under any font, fill symbol and geometry, painting the reading of the
\* opposite sign starts every glyph in the same column, so the digits do
\* not move and the text is as wide.
C18_SignAlignment ==
  /\ \A k \in 1..Len(CHAR_SETS) : CHAR_SETS[k].space = CHAR_SETS[k].minus
  /\ frame # NoFrame =>
       /\ Len(refresh(Negated(id)).num_str) = Len(frame.num_str)
       /\ Tail(refresh(Negated(id)).num_str) = Tail(frame.num_str)
       /\ Paint(Negated(id), screen).starts = Paint(id, screen).starts
       /\ Len(Paint(id, screen).starts) = Len(frame.num_str)

\* C18 witness: a negative reading is displayed in the first font on the
\* widest terminal, its hyphen taking the columns a space would take: the
\* first digit starts right after them.
C18_Witness ==
  /\ pc = "select"
  /\ frame # NoFrame
  /\ frame.num_str[1] = "-"
  /\ id.char_set = CHAR_SETS[1]
  /\ maxyx.cols = MaxCols
  /\ Paint(id, screen).starts[2] = id.char_set.space[1]
  /\ Paint(Negated(id), screen).starts[2] = id.char_set.space[1]

\* C16: in every state of the program, the initial one included, the
\* positive and negative pairs are green on green and red on red when the
\* fill symbol is the blank and green on black and red on black when it is
\* any other symbol; so the two pairs are always of the same mode, and the
\* same-on-same pairs are in use exactly when the fill symbol is blank.
C16_ColorMode ==
  /\ id.base_char \in { BASE_CHARACTERS[k] : k \in 1..Len(BASE_CHARACTERS) }
  /\ id.base_char = " " =>
       /\ id.pair_positive = COLOR_PAIR_GRN_ON_GRN
       /\ id.pair_negative = COLOR_PAIR_RED_ON_RED
  /\ id.base_char # " " =>
       /\ id.pair_positive = COLOR_PAIR_GRN_ON_BLK
       /\ id.pair_negative = COLOR_PAIR_RED_ON_BLK
  /\ (id.pair_positive = COLOR_PAIR_GRN_ON_GRN
        /\ id.pair_negative = COLOR_PAIR_RED_ON_RED) <=> id.base_char = " "

\* C16 witness: F2 has gone through the blank fill symbol and on to the
\* next one, which the initial style is four steps past: the pairs are the
\* on-black ones again.
C16_Witness ==
  /\ pc = "select"
  /\ id.base_char = BASE_CHARACTERS[2]
  /\ id.pair_positive = COLOR_PAIR_GRN_ON_BLK
  /\ id.pair_negative = COLOR_PAIR_RED_ON_BLK
  /\ frame.base_char = BASE_CHARACTERS[2]

\* C17: in a loop iteration that polls the keyboard, a resize event leaves
\* every field of the display object as it was, F1 changes the font and
\* nothing else, F2 changes the fill symbol and the color pairs and nothing
\* else, any other key and an empty poll change nothing; in all of them the
\* value, the unit and the partially accumulated line stay as they were.
C17_FrameConditions ==
  [][PollInput =>
       /\ id'.number = id.number
       /\ id'.unit = id.unit
       /\ line' = line
       /\ IsKey(Polled, "KEY_RESIZE") => id' = id
       /\ IsKey(Polled, "KEY_F1") =>
            /\ id' = [id EXCEPT !.char_set = id'.char_set]
            /\ id'.char_set # id.char_set
       /\ IsKey(Polled, "KEY_F2") =>
            /\ id' = [id EXCEPT !.base_char = id'.base_char,
                                !.pair_positive = id'.pair_positive,
                                !.pair_negative = id'.pair_negative,
                                !.color_pair = id'.color_pair]
            /\ id'.base_char # id.base_char
       /\ ~(\/ IsKey(Polled, "KEY_F1") \/ IsKey(Polled, "KEY_F2")) =>
            id' = id]_vars

\* C17 witness: with the start of a line accumulated and nothing more of
\* it arrived, the font and the fill symbol are no longer the initial ones:
\* the keys were handled and value, unit and partial line are in place.
C17_Witness ==
  /\ pc = "select"
  /\ id.number = NewDisplay.number /\ id.unit = NewDisplay.unit
  /\ line # << >>
  /\ wire = << >>
  /\ id.char_set # NewDisplay.char_set
  /\ id.base_char # NewDisplay.base_char
  /\ inputQ = << >>

ReadsIsReadSerial ==
  [][(Reads /\ wire' # wire) <=> ReadSerial]_vars

\* A quit key is waiting to be polled.
QuitPending == pc = "select" /\ \E i \in 1..Len(inputQ) : IsQuit(inputQ[i])

\* C19: once ESC or EOT is waiting on the keyboard, the loop, as long as it
\* keeps taking iterations, polls it and ends, whatever the arrival of
\* serial data, the port being readable at every select included.
C19_QuitLiveness == QuitPending ~> (pc = "exited")

\* C21: whenever the process has exited after initscr had succeeded, a
\* failure of a later step of IndicatorDisplay.__init__ included, the
\* screen has been released (endwin has run, before the exit) and the
\* serial handle is closed.
C21_AcquiredScreenReleased ==
  (pc = "exited" /\ Count("initscr", events) > 0) =>
    /\ stdscr = "released"
    /\ Count("endwin", events) = 1
    /\ monitor = "closed"
    /\ Count("close", events) = 1

\* The bytes of the stream that no display_number call has had yet, in
\* order: those in the line buffer, those waiting at the port and those
\* still to arrive.
Pending == line \o wire \o sending

\* What display_number stores for a line.
ValueOf(l) == float(INDICATOR_RE_match(l).number)
UnitOf(l) == INDICATOR_RE_match(l).unit

\* C22: with well-formed lines arriving in any chunks, the line buffer
\* holds no terminator whenever the loop waits; a read whose bytes end with
\* a terminator makes exactly one display_number call, whose argument is the
\* first line of the pending stream, terminator included, and takes exactly
\* that line off the stream, leaving its value and unit displayed; a read
\* without terminator calls nothing and takes nothing off; and no other
\* step adds a display_number call, changes the pending stream while the
\* loop goes on, or changes value and unit.  So every line is displayed once, in order, whole, and the last
\* one stays displayed.
C22_LineReassembly ==
  /\ [](pc = "select" => Count("\n", line) = 0)
  /\ [][IF ReadSerial
        THEN LET chunk == read_until(wire)
             IN  /\ chunk # << >>
                 /\ Count("\n", chunk) <= 1
                 /\ pc' = "select"
                 /\ IF endswith_nl(chunk)
                    THEN /\ calls' = << read_until(Pending) >>
                         /\ calls'[1] = line \o chunk
                         /\ calls'[1] \in StreamLines
                         /\ Pending = calls'[1] \o Pending'
                         /\ line' = << >>
                         /\ id'.number = ValueOf(calls'[1])
                         /\ id'.unit = UnitOf(calls'[1])
                         /\ frame' = refresh(id')
                    ELSE /\ calls' = << >>
                         /\ Pending' = Pending
                         /\ line' = line \o chunk
                         /\ id' = id
        ELSE /\ calls' \in {calls, << >>}
             /\ id'.number = id.number
             /\ id'.unit = id.unit
             /\ pc' = "select" => Pending' = Pending]_vars

\* C22 witness: a stream of two lines of different units has arrived and
\* was read to its end: the second line, -0.5 in, made the last call and is
\* the reading displayed, and nothing is left in the buffer.
C22_Witness ==
  /\ pc = "select"
  /\ Pending = << >>
  /\ calls = << << "-", "0", ".", "5", " ", "i", "n", "\n" >> >>
  /\ id.number = Normal(-5, 1)
  /\ id.unit = inch
  /\ rlist = {"indicator_fd", "stdin_fd"}

=============================================================================
